---- MODULE Spec2Model ----
(***************************************************************************)
(* Model of package jot (doozr/jot): the standard Jotter held in the       *)
(* package variable `jotter` and the top-level functions of jot.go that    *)
(* delegate to it.  The Jotter type, its methods and the Printer interface *)
(* live in another file of the package; they are modelled from the         *)
(* specification (sections 3, 4.1 and 4.2).                                *)
(*                                                                         *)
(* Spec     : one caller, every top-level call is one atomic step.         *)
(* ConcSpec : several goroutines, one step per access to the shared        *)
(*            fields of `jotter` (jot.go takes no lock anywhere).          *)
(***************************************************************************)
EXTENDS Integers, Sequences, FiniteSets

VARIABLES
    jotter,      \* the standard Jotter: [enabled, printer]        (jot.go:74)
    inst,        \* an independent Jotter made by jot.New          (jot.go:16)
    log,         \* per Printer, the ordered calls it has received
    outcome,     \* what the caller of the last call observed
    last,        \* history: the last call made and its inputs
    installed,   \* history: Printer the standard Jotter was last given
    lastToggle,  \* history: last of Enable / Disable called at top level
    enableCalled,\* history: top-level Enable has been called
    pc,          \* ConcSpec: per goroutine, position inside its call
    frame        \* ConcSpec: per goroutine, the locals of its call

vars == <<jotter, inst, log, outcome, last, installed, lastToggle,
          enableCalled, pc, frame>>

----------------------------------------------------------------------------
(* Bounds *)

MaxLog == 2          \* calls recorded over all Printers
NumGoroutines == 2   \* goroutines of ConcSpec
MaxConcLog == 1      \* calls recorded over all Printers in ConcSpec

----------------------------------------------------------------------------
(* Values *)

\* A Go interface value is two words: the method table and the data pointer.
Iface(s) == [tab |-> s, data |-> s]

Nil == Iface("nil")

Stderr == "stderr"

Sinks == {Stderr, "s1"}

Printers == {Iface(s) : s \in Sinks} \cup {Nil}

Args == {<< >>, <<"a", "b">>}

Formats == {"%s %s"}

NoFormat == ""

Goroutines == 1 .. NumGoroutines

TotalLen(lg) == Len(lg[Stderr]) + Len(lg["s1"])

----------------------------------------------------------------------------
(* Printer: the three print-style operations a sink offers.  A call on the *)
(* nil interface panics before any sink is reached; a sink that is reached *)
(* records the call and may itself fail.                                   *)

PrinterCall(lg, printer, call, fails) ==
    IF printer = Nil
    THEN [log |-> lg, outcome |-> "panic:nil"]
    ELSE IF printer.tab # printer.data
    THEN [log |-> lg, outcome |-> "undefined"]
    ELSE [log |-> [lg EXCEPT ![printer.data] = Append(@, call)],
          outcome |-> IF fails THEN "panic:sink" ELSE "ok"]

PrintCall(v) == [kind |-> "Print", format |-> NoFormat, args |-> v]

PrintfCall(format, v) == [kind |-> "Printf", format |-> format, args |-> v]

PrintlnCall(v) == [kind |-> "Println", format |-> NoFormat, args |-> v]

----------------------------------------------------------------------------
(* Jotter: the gate. *)

New(printer) == [enabled |-> FALSE, printer |-> printer]

JotterEnable(j) == [j EXCEPT !.enabled = TRUE]

JotterDisable(j) == [j EXCEPT !.enabled = FALSE]

JotterPrint(j, lg, v, fails) ==
    IF j.enabled
    THEN PrinterCall(lg, j.printer, PrintCall(v), fails)
    ELSE [log |-> lg, outcome |-> "ok"]

JotterPrintf(j, lg, format, v, fails) ==
    IF j.enabled
    THEN PrinterCall(lg, j.printer, PrintfCall(format, v), fails)
    ELSE [log |-> lg, outcome |-> "ok"]

JotterPrintln(j, lg, v, fails) ==
    IF j.enabled
    THEN PrinterCall(lg, j.printer, PrintlnCall(v), fails)
    ELSE [log |-> lg, outcome |-> "ok"]

----------------------------------------------------------------------------
(* jot.go: the standard Jotter and the top-level functions.  jot.Print is   *)
(* named JotPrint here.                                                    *)

StdJotterEnabled == [enabled |-> TRUE, printer |-> Iface(Stderr)]

StdJotter == [enabled |-> FALSE, printer |-> Iface(Stderr)]

SetPrinterResets(printer) ==
    /\ jotter' = [enabled |-> FALSE, printer |-> printer]
    /\ outcome' = "ok"
    /\ UNCHANGED <<inst, log>>

SetPrinter(printer) ==
    /\ jotter' = [jotter EXCEPT !.printer = printer]
    /\ outcome' = "ok"
    /\ UNCHANGED <<inst, log>>

EnableDisables ==
    /\ jotter' = JotterDisable(jotter)
    /\ outcome' = "ok"
    /\ UNCHANGED <<inst, log>>

Enable ==
    /\ jotter' = JotterEnable(jotter)
    /\ outcome' = "ok"
    /\ UNCHANGED <<inst, log>>

DisableOnInst ==
    /\ inst' = JotterDisable(inst)
    /\ outcome' = "ok"
    /\ UNCHANGED <<jotter, log>>

Disable ==
    /\ jotter' = JotterDisable(jotter)
    /\ outcome' = "ok"
    /\ UNCHANGED <<inst, log>>

PrintUngated(v, fails) ==
    LET r == PrinterCall(log, jotter.printer, PrintCall(v), fails)
    IN  /\ log' = r.log
        /\ outcome' = r.outcome
        /\ UNCHANGED <<jotter, inst>>

JotPrint(v, fails) ==
    LET r == JotterPrint(jotter, log, v, fails)
    IN  /\ log' = r.log
        /\ outcome' = r.outcome
        /\ UNCHANGED <<jotter, inst>>

PrintfRecovers(format, v, fails) ==
    LET r == JotterPrintf(jotter, log, format, v, fails)
    IN  /\ log' = r.log
        /\ outcome' = "ok"
        /\ UNCHANGED <<jotter, inst>>

Printf(format, v, fails) ==
    LET r == JotterPrintf(jotter, log, format, v, fails)
    IN  /\ log' = r.log
        /\ outcome' = r.outcome
        /\ UNCHANGED <<jotter, inst>>

PrintlnThenDisables(v, fails) ==
    LET r == JotterPrintln(jotter, log, v, fails)
    IN  /\ log' = r.log
        /\ outcome' = r.outcome
        /\ jotter' = JotterDisable(jotter)
        /\ UNCHANGED inst

Println(v, fails) ==
    LET r == JotterPrintln(jotter, log, v, fails)
    IN  /\ log' = r.log
        /\ outcome' = r.outcome
        /\ UNCHANGED <<jotter, inst>>

----------------------------------------------------------------------------
(* Spec: a single caller. *)

NoCall == [op |-> "none", format |-> NoFormat, args |-> << >>,
           printer |-> Nil, fails |-> FALSE]

Call(op, format, v, printer, fails) ==
    [op |-> op, format |-> format, args |-> v, printer |-> printer,
     fails |-> fails]

Idle == [g \in Goroutines |-> "idle"]

EmptyFrame ==
    [call |-> PrintCall(<< >>), printer |-> Nil, tab |-> "nil",
     data |-> "nil", seen |-> Nil]

NoFrame == [g \in Goroutines |-> EmptyFrame]

Init ==
    /\ jotter = StdJotter
    /\ inst \in {New(p) : p \in Printers \ {Nil}}
    /\ log = [s \in Sinks |-> << >>]
    /\ outcome = "ok"
    /\ last = NoCall
    /\ installed = Iface(Stderr)
    /\ lastToggle = "none"
    /\ enableCalled = FALSE
    /\ pc = Idle
    /\ frame = NoFrame

CallEnable ==
    /\ Enable
    /\ last' = Call("Enable", NoFormat, << >>, Nil, FALSE)
    /\ lastToggle' = "Enable"
    /\ enableCalled' = TRUE
    /\ UNCHANGED <<installed, pc, frame>>

CallDisable ==
    /\ Disable
    /\ last' = Call("Disable", NoFormat, << >>, Nil, FALSE)
    /\ lastToggle' = "Disable"
    /\ UNCHANGED <<installed, enableCalled, pc, frame>>

CallSetPrinter ==
    \E printer \in Printers :
        /\ SetPrinter(printer)
        /\ last' = Call("SetPrinter", NoFormat, << >>, printer, FALSE)
        /\ installed' = printer
        /\ UNCHANGED <<lastToggle, enableCalled, pc, frame>>

CallPrint ==
    \E v \in Args, fails \in BOOLEAN :
        /\ JotPrint(v, fails)
        /\ TotalLen(log') <= MaxLog
        /\ last' = Call("Print", NoFormat, v, Nil, fails)
        /\ UNCHANGED <<installed, lastToggle, enableCalled, pc, frame>>

CallPrintf ==
    \E format \in Formats, v \in Args, fails \in BOOLEAN :
        /\ Printf(format, v, fails)
        /\ TotalLen(log') <= MaxLog
        /\ last' = Call("Printf", format, v, Nil, fails)
        /\ UNCHANGED <<installed, lastToggle, enableCalled, pc, frame>>

CallPrintln ==
    \E v \in Args, fails \in BOOLEAN :
        /\ Println(v, fails)
        /\ TotalLen(log') <= MaxLog
        /\ last' = Call("Println", NoFormat, v, Nil, fails)
        /\ UNCHANGED <<installed, lastToggle, enableCalled, pc, frame>>

\* Calls on the independent instance, made through its own methods.
InstEnable ==
    /\ inst' = JotterEnable(inst)
    /\ outcome' = "ok"
    /\ last' = Call("inst.Enable", NoFormat, << >>, Nil, FALSE)
    /\ UNCHANGED <<jotter, log, installed, lastToggle, enableCalled, pc,
                   frame>>

InstDisable ==
    /\ inst' = JotterDisable(inst)
    /\ outcome' = "ok"
    /\ last' = Call("inst.Disable", NoFormat, << >>, Nil, FALSE)
    /\ UNCHANGED <<jotter, log, installed, lastToggle, enableCalled, pc,
                   frame>>

InstPrint ==
    \E v \in Args, fails \in BOOLEAN :
        LET r == JotterPrint(inst, log, v, fails)
        IN  /\ log' = r.log
            /\ TotalLen(log') <= MaxLog
            /\ outcome' = r.outcome
            /\ last' = Call("inst.Print", NoFormat, v, Nil, fails)
            /\ UNCHANGED <<jotter, inst, installed, lastToggle, enableCalled,
                           pc, frame>>

Next ==
    \/ CallEnable
    \/ CallDisable
    \/ CallSetPrinter
    \/ CallPrint
    \/ CallPrintf
    \/ CallPrintln
    \/ InstEnable
    \/ InstDisable
    \/ InstPrint

Spec == Init /\ [][Next]_vars

----------------------------------------------------------------------------
(* ConcSpec: goroutines calling the top-level functions at once.  jot.go   *)
(* takes no lock and uses no atomic, so every access to jotter.enabled and *)
(* to each of the two words of jotter.printer is a step of its own.  The   *)
(* words are stored and loaded method table first: with the other order    *)
(* the same mixed values arise, so one order is enough.                    *)

ConcCalls ==
    {PrintCall(<<"a", "b">>), PrintfCall("%s %s", <<"a", "b">>),
     PrintlnCall(<<"a", "b">>)}

Unused == <<inst, last, installed, lastToggle, enableCalled>>

ConcInit ==
    /\ Init
    /\ inst = New(Iface("s1"))

GoEnable(g) ==
    /\ pc[g] = "idle"
    /\ jotter' = JotterEnable(jotter)
    /\ UNCHANGED <<log, outcome, pc, frame, Unused>>

GoDisable(g) ==
    /\ pc[g] = "idle"
    /\ jotter' = JotterDisable(jotter)
    /\ UNCHANGED <<log, outcome, pc, frame, Unused>>

\* SetPrinter: the store of the first word of the interface value.
GoSetPrinterTab(g) ==
    \E printer \in Printers :
        /\ pc[g] = "idle"
        /\ jotter' = [jotter EXCEPT !.printer.tab = printer.tab]
        /\ frame' = [frame EXCEPT ![g].printer = printer]
        /\ pc' = [pc EXCEPT ![g] = "store"]
        /\ UNCHANGED <<log, outcome, Unused>>

\* SetPrinter: the store of the second word.
GoSetPrinterData(g) ==
    /\ pc[g] = "store"
    /\ jotter' = [jotter EXCEPT !.printer.data = frame[g].printer.data]
    /\ pc' = [pc EXCEPT ![g] = "idle"]
    /\ frame' = [frame EXCEPT ![g] = EmptyFrame]
    /\ UNCHANGED <<log, outcome, Unused>>

\* Print, Printf, Println: the read of jotter.enabled that decides the call.
GoPrintGate(g) ==
    \E call \in ConcCalls :
        /\ pc[g] = "idle"
        /\ frame' = IF jotter.enabled
                     THEN [frame EXCEPT ![g].call = call,
                                        ![g].seen = jotter.printer]
                     ELSE frame
        /\ pc' = [pc EXCEPT ![g] = IF jotter.enabled THEN "load" ELSE "idle"]
        /\ UNCHANGED <<jotter, log, outcome, Unused>>

\* The load of the first word of jotter.printer.
GoLoadTab(g) ==
    /\ pc[g] = "load"
    /\ frame' = [frame EXCEPT ![g].tab = jotter.printer.tab]
    /\ pc' = [pc EXCEPT ![g] = "load2"]
    /\ UNCHANGED <<jotter, log, outcome, Unused>>

\* The load of the second word.
GoLoadData(g) ==
    /\ pc[g] = "load2"
    /\ frame' = [frame EXCEPT ![g].data = jotter.printer.data]
    /\ pc' = [pc EXCEPT ![g] = "call"]
    /\ UNCHANGED <<jotter, log, outcome, Unused>>

\* The call on the Printer value that was loaded.
GoForward(g) ==
    \E fails \in BOOLEAN :
        LET used == [tab |-> frame[g].tab, data |-> frame[g].data]
            r == PrinterCall(log, used, frame[g].call, fails)
        IN  /\ pc[g] = "call"
            /\ log' = r.log
            /\ TotalLen(log') <= MaxConcLog
            /\ outcome' = r.outcome
            /\ pc' = [pc EXCEPT ![g] = "idle"]
            /\ frame' = [frame EXCEPT ![g] = EmptyFrame]
            /\ UNCHANGED <<jotter, Unused>>

ConcNext ==
    \E g \in Goroutines :
        \/ GoEnable(g)
        \/ GoDisable(g)
        \/ GoSetPrinterTab(g)
        \/ GoSetPrinterData(g)
        \/ GoPrintGate(g)
        \/ GoLoadTab(g)
        \/ GoLoadData(g)
        \/ GoForward(g)

ConcSpec == ConcInit /\ [][ConcNext]_vars

----------------------------------------------------------------------------
(* Properties.  In a step of Spec, last' describes the call that step      *)
(* makes, so an action formula reads the call from last' and its effect    *)
(* from the primed and unprimed state.                                     *)

TopPrintOps == {"Print", "Printf", "Println"}

ToggleOps == {"Enable", "Disable"}

CallOf(c) == [kind |-> c.op, format |-> c.format, args |-> c.args]

\* C1: a top-level Print, Printf or Println made while the standard Jotter
\* is disabled leaves the call log of every Printer unchanged.
C1_DisabledForwardsNothing ==
    [][(last'.op \in TopPrintOps /\ ~jotter.enabled) => log' = log]_vars

C1_Witness ==
    /\ last.op = "Println"
    /\ ~jotter.enabled
    /\ lastToggle = "Disable"
    /\ TotalLen(log) > 0

\* C2: a top-level Print, Printf or Println made while the standard Jotter
\* is enabled appends exactly one call to the log of the active Printer, of
\* the same kind and with the caller's format and arguments, and touches no
\* other Printer.
C2_EnabledForwardsExactlyOne ==
    [][(last'.op \in TopPrintOps /\ jotter.enabled) =>
          \E s \in Sinks :
              /\ jotter.printer = Iface(s)
              /\ log' = [log EXCEPT ![s] = Append(@, CallOf(last'))]]_vars

\* With a Printer installed the forwarding of C2 is exact: the failure of C2
\* needs a nil printer.
ForwardsWhenPrinterSet ==
    [][(last'.op \in TopPrintOps /\ jotter.enabled /\ jotter.printer # Nil) =>
          \E s \in Sinks :
              /\ jotter.printer = Iface(s)
              /\ log' = [log EXCEPT ![s] = Append(@, CallOf(last'))]]_vars

\* C3: the standard Jotter is disabled until the first top-level Enable, and
\* no top-level Print, Printf or Println made before it reaches any Printer.
C3_StartsDisabled ==
    /\ [](~enableCalled => ~jotter.enabled)
    /\ [][(~enableCalled' /\ last'.op \in TopPrintOps) => log' = log]_vars

C3_Witness ==
    /\ ~enableCalled
    /\ last.op = "Print"
    /\ last.args = <<"a", "b">>
    /\ lastToggle = "none"

\* C4: SetPrinter leaves the enabled flag and every log unchanged, and a
\* top-level call that is forwarded afterwards is appended to the log of the
\* Printer last installed while every other Printer's log stays as it was.
C4_SetPrinterFrame ==
    [][/\ last'.op = "SetPrinter" =>
              /\ jotter'.enabled = jotter.enabled
              /\ log' = log
       /\ last'.op \in TopPrintOps =>
              /\ \A s \in Sinks : Iface(s) # installed => log'[s] = log[s]
              /\ log' # log =>
                     /\ installed # Nil
                     /\ log'[installed.data] =
                            Append(log[installed.data], CallOf(last'))]_vars

C4_Witness ==
    /\ last.op \in TopPrintOps
    /\ jotter.enabled
    /\ installed = Iface("s1")
    /\ Len(log["s1"]) = 1
    /\ Len(log[Stderr]) = 1
    /\ inst = New(Iface("s1"))

\* C5: the printer of the standard Jotter is never nil.
C5_PrinterNeverNil == jotter.printer # Nil

\* C6: the Printer value a forwarding call is about to use is whole and is
\* the one the standard Jotter held when that call read the enabled flag.
C6_GateAndSinkFromOneState ==
    \A g \in Goroutines :
        pc[g] = "call" =>
            /\ frame[g].tab = frame[g].data
            /\ [tab |-> frame[g].tab, data |-> frame[g].data] = frame[g].seen

\* C7: after any sequence of top-level Enable and Disable calls the flag is
\* the value the last of them set, both always succeed, and repeating the
\* last one changes nothing of the standard Jotter.
C7_LastWriteWins ==
    /\ [](lastToggle = "Enable" => jotter.enabled)
    /\ [](lastToggle = "Disable" => ~jotter.enabled)
    /\ [](last.op \in ToggleOps => outcome = "ok")
    /\ [][last'.op = lastToggle => jotter' = jotter]_vars

C7_Witness ==
    /\ last.op = "Disable"
    /\ enableCalled
    /\ ~jotter.enabled
    /\ outcome = "ok"

\* C8: every top-level function has exactly the effect of the corresponding
\* Jotter method applied to the standard Jotter, leaves the independent
\* instance alone, and what a top-level print forwards reaches the Printer
\* installed by the top-level SetPrinter.
C8_TopLevelDelegates ==
    [][/\ last'.op \in ToggleOps \cup TopPrintOps \cup {"SetPrinter"} =>
              inst' = inst
       /\ last'.op = "Enable" =>
              jotter' = JotterEnable(jotter) /\ log' = log
       /\ last'.op = "Disable" =>
              jotter' = JotterDisable(jotter) /\ log' = log
       /\ last'.op = "SetPrinter" =>
              /\ jotter' = [jotter EXCEPT !.printer = last'.printer]
              /\ log' = log
       /\ last'.op = "Print" =>
              /\ jotter' = jotter
              /\ log' = JotterPrint(jotter, log, last'.args, last'.fails).log
       /\ last'.op = "Printf" =>
              /\ jotter' = jotter
              /\ log' = JotterPrintf(jotter, log, last'.format, last'.args,
                                     last'.fails).log
       /\ last'.op = "Println" =>
              /\ jotter' = jotter
              /\ log' = JotterPrintln(jotter, log, last'.args,
                                      last'.fails).log
       /\ (last'.op \in TopPrintOps /\ log' # log) =>
              /\ installed # Nil
              /\ log'[installed.data] # log[installed.data]]_vars

C8_Witness ==
    /\ last.op = "Print"
    /\ enableCalled
    /\ installed = Iface("s1")
    /\ log["s1"] = <<PrintCall(<<"a", "b">>)>>
    /\ inst = New(Iface(Stderr))
    /\ log[Stderr] = << >>

\* C9: the caller of a top-level Print, Printf or Println observes exactly
\* what a direct call on the Printer would give when the Jotter is enabled,
\* and success when it is disabled; the Jotter is the same after the call.
C9_FailurePassesThrough ==
    [][last'.op \in TopPrintOps =>
          /\ jotter' = jotter
          /\ outcome' =
                 IF jotter.enabled
                 THEN PrinterCall(log, jotter.printer, CallOf(last'),
                                  last'.fails).outcome
                 ELSE "ok"]_vars

C9_Witness ==
    /\ last.op = "Printf"
    /\ last.fails
    /\ outcome = "panic:sink"
    /\ jotter.enabled

\* C10: Print, Printf and Println change neither field of the standard
\* Jotter, Enable and Disable leave its printer alone, the flag changes only
\* in an Enable or Disable step and the printer only in a SetPrinter step.
C10_OnlySettersMutate ==
    [][/\ last'.op \in TopPrintOps => jotter' = jotter
       /\ last'.op \in ToggleOps => jotter'.printer = jotter.printer
       /\ jotter'.enabled # jotter.enabled => last'.op \in ToggleOps
       /\ jotter'.printer # jotter.printer => last'.op = "SetPrinter"]_vars

C10_Witness ==
    /\ last.op = "Println"
    /\ jotter.enabled
    /\ jotter.printer = Iface("s1")
    /\ Len(log["s1"]) = 2

====
